---- MODULE Spec2Model ----
(***************************************************************************)
(* A model of gopro_importer.py: the scan of a mounted GoPro volume into   *)
(* timelapse sessions (TimelapseImage, Timelapse.add_image), the ordering  *)
(* of a session's images (sortname, sorted_images), the destination naming *)
(* and copy (Timelapse.copy_files), and the counter marker file            *)
(* (.goproimport: read_sequence, write_sequence), over successive runs of  *)
(* the script against the same volume and destination directory.           *)
(*                                                                         *)
(* Text (file names, formatted numbers, the marker file's content) is a    *)
(* sequence of one-character strings, so that formatting, parsing and      *)
(* string comparison are computed character by character as Python does.   *)
(***************************************************************************)
EXTENDS Integers, Sequences, FiniteSets, TLC

\* Bounds of the model.
MaxFiles == 3      \* files the volume's GoPro directories list
MaxRuns == 2       \* runs of the script against the same destination

----------------------------------------------------------------------------
(* Text: "%d", "%0Nd", int(), string comparison, splitext.                 *)

Digits == <<"0", "1", "2", "3", "4", "5", "6", "7", "8", "9">>

IsDigit(c) == \E d \in 1..10 : Digits[d] = c

DigitVal(c) == (CHOOSE d \in 1..10 : Digits[d] = c) - 1

\* "%d" % n for n >= 0
RECURSIVE Dec(_)
Dec(n) == IF n < 10 THEN <<Digits[n + 1]>>
          ELSE Dec(n \div 10) \o <<Digits[(n % 10) + 1]>>

RECURSIVE ZeroPad(_, _)
ZeroPad(s, w) == IF Len(s) >= w THEN s ELSE ZeroPad(<<"0">> \o s, w)

\* "%0wd" % n for n >= 0: at least w digits, never truncated
Fmt0(n, w) == ZeroPad(Dec(n), w)

\* the text int() accepts, among the texts of the model (digits and letters)
Parsable(s) == Len(s) > 0 /\ \A i \in 1..Len(s) : IsDigit(s[i])

\* int(s) for such a text
RECURSIVE int(_)
int(s) == IF Len(s) = 0 THEN 0
          ELSE 10 * int(SubSeq(s, 1, Len(s) - 1)) + DigitVal(s[Len(s)])

\* the code point of a character of the model's alphabet
Ord(c) == IF IsDigit(c) THEN 48 + DigitVal(c)
          ELSE IF c = "." THEN 46
          ELSE IF c = "_" THEN 95
          ELSE IF c = "G" THEN 71
          ELSE IF c = "J" THEN 74
          ELSE IF c = "P" THEN 80
          ELSE 120

\* a < b for Python strings: by code point, a proper prefix first
RECURSIVE StrLess(_, _)
StrLess(a, b) == IF Len(b) = 0 THEN FALSE
                 ELSE IF Len(a) = 0 THEN TRUE
                 ELSE IF a[1] = b[1] THEN StrLess(Tail(a), Tail(b))
                 ELSE Ord(a[1]) < Ord(b[1])

\* the index of the last "." of a base name that starts an extension, or 0
LastDot(b) == LET dots == {i \in 2..Len(b) : b[i] = "."}
              IN  IF dots = {} THEN 0
                  ELSE CHOOSE i \in dots : \A j \in dots : j <= i

\* os.path.splitext(b)[1]
SplitExt(b) == IF LastDot(b) = 0 THEN <<>> ELSE SubSeq(b, LastDot(b), Len(b))

----------------------------------------------------------------------------
(* Capture times: <<year, month, day, hour, minute, second>>.              *)

NoTime == <<>>

\* a < b for two datetimes
RECURSIVE TupleLess(_, _)
TupleLess(a, b) == IF Len(a) = 0 \/ Len(b) = 0 THEN FALSE
                   ELSE IF a[1] = b[1] THEN TupleLess(Tail(a), Tail(b))
                   ELSE a[1] < b[1]

TimeLess(a, b) == TupleLess(a, b)

\* when.strftime("%Y%m%d%H%M%S"): the C library's %Y does not pad the year
Strftime(t) == Dec(t[1]) \o Fmt0(t[2], 2) \o Fmt0(t[3], 2)
               \o Fmt0(t[4], 2) \o Fmt0(t[5], 2) \o Fmt0(t[6], 2)

----------------------------------------------------------------------------
(* The mounted volume: the files the GoPro directories of DCIM hold.       *)

T999 == <<999, 12, 31, 23, 59, 59>>
T0 == <<2020, 1, 9, 23, 59, 59>>
T1 == <<2020, 1, 10, 0, 0, 0>>
T2 == <<2020, 1, 10, 0, 0, 1>>

File(folder, base, exists, exif, when, size) ==
    [folder |-> folder, base |-> base, exists |-> exists, exif |-> exif,
     when |-> when, size |-> size]

\* The files a volume may hold: folder is the number of the nnnGOPRO
\* directory, exif says whether the file carries EXIF tag 0x9003.
FileA == File(100, <<"G","0","0","1","0","0","0","2",".","J","P","G">>, TRUE, "ok", T2, 3)
FileB == File(100, <<"G","0","0","1","0","0","0","3",".","J","P","G">>, TRUE, "ok", T1, 5)
FileC == File(101, <<"G","0","0","1","0","0","0","1",".","J","P","G">>, TRUE, "ok", T0, 7)
FileD == File(100, <<"G","0","0","1","0","0","0","4",".","J","P","G">>, TRUE, "ok", T999, 2)
FileE == File(100, <<"G","0","0","2","0","0","0","1",".","J","P","G">>, TRUE, "ok", T1, 4)
FileF == File(100, <<"G","0","0","3","0","0","0","1",".","J","P","G">>, TRUE, "ok", T2, 6)
FileZero == File(100, <<"G","0","0","0","0","0","0","1",".","J","P","G">>, TRUE, "ok", T1, 1)
FileNote == File(100, <<"n","o","t","e",".","t","x","t">>, TRUE, "ok", T1, 1)
FileNoTag == File(100, <<"G","0","0","2","0","0","0","2",".","J","P","G">>, TRUE, "notag", NoTime, 1)
FileGone == File(100, <<"G","0","0","2","0","0","0","3",".","J","P","G">>, FALSE, "ok", NoTime, 0)

Pool == {FileA, FileB, FileC, FileD, FileE, FileF, FileZero, FileNote, FileNoTag, FileGone}

\* The nested loops visit the files directory by directory: a listing never
\* returns to a directory it has left.
ByDirectory(l) ==
    \A i, j, k \in 1..Len(l) :
        (i < j /\ j < k /\ l[i].folder = l[k].folder) => l[j].folder = l[i].folder

Distinct(l) == \A i, j \in 1..Len(l) : i # j => l[i] # l[j]

\* every listing of up to MaxFiles files of the pool
Listings == UNION {{l \in [1..m -> Pool] : Distinct(l) /\ ByDirectory(l)} : m \in 0..MaxFiles}

\* The volumes the runs are followed on: two sessions, the first listed out
\* of capture order; one session over two directories after another; one
\* session of three images; three sessions; no session at all; a scan that
\* meets a file without the tag; a scan that meets a path that is gone.
Volumes == { <<FileA, FileB, FileE>>,
             <<FileF, FileE, FileA>>,
             <<FileE, FileA, FileC>>,
             <<FileA, FileD, FileB>>,
             <<FileZero, FileNote>>,
             <<FileE, FileNoTag>>,
             <<FileGone>> }

----------------------------------------------------------------------------
(* TimelapseImage                                                          *)

\* FILE_re.match(b): ^G([0-9]{3})([0-9]{4}).JPG$ ("." matches any character)
FILE_re(b) == /\ Len(b) = 12
              /\ b[1] = "G"
              /\ \A i \in 2..8 : IsDigit(b[i])
              /\ b[10] = "J" /\ b[11] = "P" /\ b[12] = "G"

\* What TimelapseImage.__init__ leaves: no attribute at all ("bare") when the
\* path does not exist, group 0 alone ("other") when the name does not match,
\* every attribute ("image") when it does.
TimelapseImage(f) ==
    IF ~f.exists
    THEN [state |-> "bare", fn |-> <<>>, folder |-> 0, group |-> 0, seq |-> 0,
          when |-> NoTime, size |-> 0, ext |-> <<>>]
    ELSE IF ~FILE_re(f.base)
    THEN [state |-> "other", fn |-> <<f.folder, f.base>>, folder |-> f.folder,
          group |-> 0, seq |-> 0, when |-> NoTime, size |-> 0, ext |-> <<>>]
    ELSE [state |-> "image", fn |-> <<f.folder, f.base>>, folder |-> f.folder,
          group |-> int(SubSeq(f.base, 2, 4)), seq |-> int(SubSeq(f.base, 5, 8)),
          when |-> f.when, size |-> f.size, ext |-> SplitExt(f.base)]

NoImage == [state |-> "none", fn |-> <<>>, folder |-> 0, group |-> 0, seq |-> 0,
            when |-> NoTime, size |-> 0, ext |-> <<>>]

\* A variant that sorts by sequence number ahead of the capture time.
sortname_seq_first(ti) ==
    Dec(ti.group) \o <<"_">> \o Fmt0(ti.folder, 3) \o <<"_">>
    \o Fmt0(ti.seq, 4) \o <<"_">> \o Strftime(ti.when)

\* u"%d_%03d_%s_%04d" % (group, folder, when.strftime(...), seq)
sortname(ti) ==
    Dec(ti.group) \o <<"_">> \o Fmt0(ti.folder, 3) \o <<"_">>
    \o Strftime(ti.when) \o <<"_">> \o Fmt0(ti.seq, 4)

\* A variant that pads the index to 4 digits.
destname_4(n, ti) == Fmt0(n, 4) \o ti.ext

\* "%08d%s" % (n, ti.ext)
destname(n, ti) == Fmt0(n, 8) \o ti.ext

----------------------------------------------------------------------------
(* Timelapse                                                               *)

Timelapse(number) ==
    [seq |-> 0, images |-> <<>>, number |-> number, first |-> NoTime,
     last |-> NoTime, size |-> 0]

add_image(t, ti) ==
    IF ti.group # t.number THEN t
    ELSE [t EXCEPT !.first = IF Len(t.images) = 0 THEN ti.when ELSE @,
                   !.images = Append(@, ti),
                   !.last = IF @ = NoTime \/ TimeLess(@, ti.when) THEN ti.when ELSE @,
                   !.size = @ + ti.size]

\* sorted() is stable: an image goes after the images whose key is not greater
RECURSIVE Insert(_, _)
Insert(s, x) == IF s = <<>> THEN <<x>>
                ELSE IF StrLess(sortname(x), sortname(s[1])) THEN <<x>> \o s
                ELSE <<s[1]>> \o Insert(Tail(s), x)

RECURSIVE Sorted(_)
Sorted(images) == IF images = <<>> THEN <<>>
                  ELSE Insert(Sorted(SubSeq(images, 1, Len(images) - 1)),
                              images[Len(images)])

sorted_images(t) == Sorted(t.images)

----------------------------------------------------------------------------
(* The destination directory and the marker file .goproimport              *)

\* --prefix, by default
Prefix == <<"G", "o", "P", "r", "o">>

\* "%s_%03d" % (prefix, seq)
DirName(prefix, c) == prefix \o <<"_">> \o Fmt0(c, 3)

NoFile == [present |-> FALSE, text |-> <<>>]

TextFile(text) == [present |-> TRUE, text |-> text]

\* the while loop of copy_files: the first counter from c on whose name is free
RECURSIVE FreeFrom(_, _)
FreeFrom(fs, c) == IF DirName(Prefix, c) \in DOMAIN fs THEN FreeFrom(fs, c + 1) ELSE c

\* A variant that steps past the starting counter before it looks.
resolve_next(fs, seq) == FreeFrom(fs, seq + 1)

\* the counter copy_files settles on, called with seq
resolve(fs, seq) == FreeFrom(fs, seq)

\* os.makedirs(newdir), newdir not existing
makedirs(fs, newdir) == fs @@ (newdir :> {})

\* copyfile(src, newdir/name): the file named name now holds src's content
copyfile(fs, newdir, name, src) ==
    [fs EXCEPT ![newdir] = {p \in @ : p[1] # name} \cup {<<name, src>>}]

\* A variant that writes only from the second imported session on.
should_write_after_one(imported) == imported > 1

\* if imported > 0
should_write(imported) == imported > 0

\* what write_sequence leaves in the marker file
write_sequence(val) == TextFile(Dec(val))

\* the answers given at the prompt
Answers == {<<"y">>, <<"Y">>, <<"n">>, <<>>}

\* len(resp) and resp[0] in ['Y','y']
Approved(resp) == Len(resp) > 0 /\ resp[1] \in {"Y", "y"}

----------------------------------------------------------------------------
VARIABLES
    pc,          \* where the run is: start, scan, loop, copy, done, crashed
    error,       \* the exception that ended the run, "" if none
    run,         \* the number of the run
    volume,      \* the files of the volume, in the order the listing gives them
    dest,        \* the destination directory: entry name -> {<<file name, source>>}
    marker,      \* the marker file
    todo,        \* the files the scan has yet to examine
    nfiles,      \* nfiles
    ti,          \* the TimelapseImage built last
    timelapses,  \* timelapses: group -> Timelapse
    seq,         \* seq
    imported,    \* imported
    pending,     \* the sessions the final loop has yet to offer
    cur,         \* the session copy_files is running on, 0 if none
    newdir,      \* copy_files: newdir
    n,           \* copy_files: n
    work,        \* copy_files: the sorted images yet to copy
    pre,         \* the destination directory as it was when copy_files was called
    marker0,     \* the marker file as it was when the run started
    writes,      \* the number of write_sequence calls of the run
    processed,   \* the sessions copy_files was called on in the run
    offered      \* the sessions offered at the prompt in the run

vars == <<pc, error, run, volume, dest, marker, todo, nfiles, ti, timelapses, seq,
          imported, pending, cur, newdir, n, work, pre, marker0, writes, processed,
          offered>>

fsvars == <<volume, dest, marker>>
scanvars == <<todo, nfiles, ti, timelapses>>
copyvars == <<cur, newdir, n, work, pre>>
histvars == <<marker0, writes, processed, offered>>

\* The marker files a destination may hold before the first run: none, or one
\* whose content is not a number.
Markers0 == {NoFile, TextFile(<<>>), TextFile(<<"1", "x">>)}

\* The entries a destination may hold before the first run.
Dests0 == {<<>>, DirName(Prefix, 1) :> {}}

Fresh ==
    /\ pc = "start"
    /\ error = ""
    /\ todo = volume
    /\ nfiles = 0
    /\ ti = NoImage
    /\ timelapses = <<>>
    /\ seq = 0
    /\ imported = 0
    /\ pending = {}
    /\ cur = 0
    /\ newdir = <<>>
    /\ n = 0
    /\ work = <<>>
    /\ pre = <<>>
    /\ marker0 = marker
    /\ writes = 0
    /\ processed = {}
    /\ offered = {}

Init ==
    /\ run = 1
    /\ volume \in Volumes
    /\ dest \in Dests0
    /\ marker \in Markers0
    /\ Fresh

\* The scan alone, over every listing, on a destination that earlier runs may
\* have left a counter in.
InitScan ==
    /\ run = 1
    /\ volume \in Listings
    /\ dest \in Dests0
    /\ marker \in Markers0 \cup {write_sequence(2)}
    /\ Fresh

Raise(e) == pc' = "crashed" /\ error' = e

\* seq = read_sequence(args.dest), the marker file absent
ReadAbsent ==
    /\ pc = "start"
    /\ ~marker.present
    /\ seq' = 0
    /\ pc' = "scan"
    /\ UNCHANGED <<error, run, imported, pending>>
    /\ UNCHANGED <<fsvars, scanvars, copyvars, histvars>>

\* seq = read_sequence(args.dest), the marker file holding a number
ReadNumber ==
    /\ pc = "start"
    /\ marker.present
    /\ Parsable(marker.text)
    /\ seq' = int(marker.text)
    /\ pc' = "scan"
    /\ UNCHANGED <<error, run, imported, pending>>
    /\ UNCHANGED <<fsvars, scanvars, copyvars, histvars>>

\* read_sequence: int(fh.read()) raises on any other content
ReadCorrupt ==
    /\ pc = "start"
    /\ marker.present
    /\ ~Parsable(marker.text)
    /\ Raise("ValueError")
    /\ UNCHANGED <<run, seq, imported, pending>>
    /\ UNCHANGED <<fsvars, scanvars, copyvars, histvars>>

\* the scan loop on a path that does not exist: __init__ returns before it
\* sets any attribute, and ti.group raises
ScanMissing ==
    /\ pc = "scan"
    /\ todo # <<>>
    /\ ~Head(todo).exists
    /\ nfiles' = nfiles + 1
    /\ ti' = TimelapseImage(Head(todo))
    /\ Raise("AttributeError")
    /\ UNCHANGED <<todo, timelapses>>
    /\ UNCHANGED <<run, seq, imported, pending>>
    /\ UNCHANGED <<fsvars, copyvars, histvars>>

\* the scan loop on a matching name whose file has no tag 0x9003:
\* get_exif_time raises inside __init__
ScanNoTag ==
    /\ pc = "scan"
    /\ todo # <<>>
    /\ Head(todo).exists
    /\ FILE_re(Head(todo).base)
    /\ Head(todo).exif # "ok"
    /\ nfiles' = nfiles + 1
    /\ Raise("KeyError")
    /\ UNCHANGED <<todo, ti, timelapses>>
    /\ UNCHANGED <<run, seq, imported, pending>>
    /\ UNCHANGED <<fsvars, copyvars, histvars>>

\* the scan loop on a file whose group is 0: continue
ScanSkip ==
    /\ pc = "scan"
    /\ todo # <<>>
    /\ Head(todo).exists
    /\ FILE_re(Head(todo).base) => Head(todo).exif = "ok"
    /\ TimelapseImage(Head(todo)).group = 0
    /\ nfiles' = nfiles + 1
    /\ ti' = TimelapseImage(Head(todo))
    /\ todo' = Tail(todo)
    /\ UNCHANGED timelapses
    /\ UNCHANGED <<pc, error, run, seq, imported, pending>>
    /\ UNCHANGED <<fsvars, copyvars, histvars>>

\* the scan loop on a timelapse image: its Timelapse is created if need be
\* and the image added
ScanImage ==
    /\ pc = "scan"
    /\ todo # <<>>
    /\ Head(todo).exists
    /\ FILE_re(Head(todo).base)
    /\ Head(todo).exif = "ok"
    /\ TimelapseImage(Head(todo)).group # 0
    /\ LET image == TimelapseImage(Head(todo))
           t == IF image.group \in DOMAIN timelapses
                THEN timelapses[image.group] ELSE Timelapse(image.group)
       IN  /\ ti' = image
           /\ timelapses' = (image.group :> add_image(t, image)) @@ timelapses
    /\ nfiles' = nfiles + 1
    /\ todo' = Tail(todo)
    /\ UNCHANGED <<pc, error, run, seq, imported, pending>>
    /\ UNCHANGED <<fsvars, copyvars, histvars>>

\* the listing is exhausted: "Scan completed", and the final loop starts
ScanCompleted ==
    /\ pc = "scan"
    /\ todo = <<>>
    /\ pc' = "loop"
    /\ pending' = DOMAIN timelapses
    /\ UNCHANGED <<error, run, seq, imported>>
    /\ UNCHANGED <<fsvars, scanvars, copyvars, histvars>>

\* (The final loop takes the sessions in the order the dict gives its keys:
\* any order, in the model.)
\* the final loop offers session k and the answer is not a yes
Skip(k, resp) ==
    /\ pc = "loop"
    /\ k \in pending
    /\ ~Approved(resp)
    /\ pending' = pending \ {k}
    /\ offered' = offered \cup {k}
    /\ UNCHANGED <<marker0, writes, processed>>
    /\ UNCHANGED <<pc, error, run, seq, imported>>
    /\ UNCHANGED <<fsvars, scanvars, copyvars>>

\* the final loop offers session k, the answer is a yes: copy_files up to the
\* copy loop (the counter is settled and the directory made)
Process(k, resp) ==
    /\ pc = "loop"
    /\ k \in pending
    /\ Approved(resp)
    /\ LET c == resolve(dest, seq)
       IN  /\ timelapses' = [timelapses EXCEPT ![k].seq = c]
           /\ newdir' = DirName(Prefix, c)
           /\ dest' = makedirs(dest, DirName(Prefix, c))
    /\ pre' = dest
    /\ cur' = k
    /\ n' = 1
    /\ work' = sorted_images(timelapses[k])
    /\ pc' = "copy"
    /\ offered' = offered \cup {k}
    /\ processed' = processed \cup {k}
    /\ UNCHANGED <<marker0, writes>>
    /\ UNCHANGED <<error, run, seq, imported, pending>>
    /\ UNCHANGED <<volume, marker, todo, nfiles, ti>>

\* one turn of the copy loop
CopyFile ==
    /\ pc = "copy"
    /\ work # <<>>
    /\ dest' = copyfile(dest, newdir, destname(n, Head(work)), Head(work).fn)
    /\ n' = n + 1
    /\ work' = Tail(work)
    /\ UNCHANGED <<cur, newdir, pre>>
    /\ UNCHANGED <<pc, error, run, seq, imported, pending>>
    /\ UNCHANGED <<volume, marker, scanvars, histvars>>

\* copyfile raises (source unreadable, disk full, permission denied): nothing
\* catches it
CopyFails ==
    /\ pc = "copy"
    /\ work # <<>>
    /\ Raise("IOError")
    /\ UNCHANGED <<run, seq, imported, pending>>
    /\ UNCHANGED <<fsvars, scanvars, copyvars, histvars>>

\* copy_files returns: imported += 1; seq = t.seq
CopyReturns ==
    /\ pc = "copy"
    /\ work = <<>>
    /\ imported' = imported + 1
    /\ seq' = timelapses[cur].seq
    /\ pending' = pending \ {cur}
    /\ pc' = "loop"
    /\ cur' = 0
    /\ newdir' = <<>>
    /\ n' = 0
    /\ pre' = <<>>
    /\ UNCHANGED work
    /\ UNCHANGED <<error, run>>
    /\ UNCHANGED <<fsvars, scanvars, histvars>>

\* the final loop is over and a session was imported: write_sequence
FinishWrite ==
    /\ pc = "loop"
    /\ pending = {}
    /\ should_write(imported)
    /\ marker' = write_sequence(seq)
    /\ writes' = writes + 1
    /\ pc' = "done"
    /\ UNCHANGED <<marker0, processed, offered>>
    /\ UNCHANGED <<error, run, seq, imported, pending>>
    /\ UNCHANGED <<volume, dest, scanvars, copyvars>>

\* the final loop is over and no session was imported
FinishQuiet ==
    /\ pc = "loop"
    /\ pending = {}
    /\ ~should_write(imported)
    /\ pc' = "done"
    /\ UNCHANGED <<error, run, seq, imported, pending>>
    /\ UNCHANGED <<fsvars, scanvars, copyvars, histvars>>

Ended == pc \in {"done", "crashed"}

\* before a run the user moves the latest import, the directory the marker
\* file names, out of the destination
MoveLatestAway ==
    /\ pc = "start"
    /\ marker.present
    /\ Parsable(marker.text)
    /\ DirName(Prefix, int(marker.text)) \in DOMAIN dest
    /\ dest' = [e \in DOMAIN dest \ {DirName(Prefix, int(marker.text))} |-> dest[e]]
    /\ UNCHANGED <<pc, error, run, seq, imported, pending>>
    /\ UNCHANGED <<volume, marker, scanvars, copyvars, histvars>>

\* the script is run again, on the same volume and destination
NextRun ==
    /\ Ended
    /\ run < MaxRuns
    /\ run' = run + 1
    /\ UNCHANGED fsvars
    /\ pc' = "start"
    /\ error' = ""
    /\ todo' = volume
    /\ nfiles' = 0
    /\ ti' = NoImage
    /\ timelapses' = <<>>
    /\ seq' = 0
    /\ imported' = 0
    /\ pending' = {}
    /\ cur' = 0
    /\ newdir' = <<>>
    /\ n' = 0
    /\ work' = <<>>
    /\ pre' = <<>>
    /\ marker0' = marker
    /\ writes' = 0
    /\ processed' = {}
    /\ offered' = {}

Next ==
    \/ ReadAbsent
    \/ ReadNumber
    \/ ReadCorrupt
    \/ ScanMissing
    \/ ScanNoTag
    \/ ScanSkip
    \/ ScanImage
    \/ ScanCompleted
    \/ \E k \in pending, resp \in Answers : Skip(k, resp)
    \/ \E k \in pending, resp \in Answers : Process(k, resp)
    \/ CopyFile
    \/ CopyFails
    \/ CopyReturns
    \/ FinishWrite
    \/ FinishQuiet
    \/ MoveLatestAway
    \/ NextRun

Spec == Init /\ [][Next]_vars

NextScan ==
    \/ ReadAbsent
    \/ ReadNumber
    \/ ReadCorrupt
    \/ ScanMissing
    \/ ScanNoTag
    \/ ScanSkip
    \/ ScanImage
    \/ ScanCompleted

SpecScan == InitScan /\ [][NextScan]_vars

----------------------------------------------------------------------------
(* Properties                                                              *)

\* C1: copy_files settles on the smallest counter c from its starting counter
\* seq on whose directory name did not exist when it was called, makes that
\* directory, records c in the session, and leaves every entry that existed
\* before the call as it was; two sessions processed in one run never have the
\* same destination directory.
C1_FreshDirectory ==
    /\ cur # 0 =>
        LET c == timelapses[cur].seq
        IN  /\ c >= seq
            /\ newdir = Prefix \o <<"_">> \o Fmt0(c, 3)
            /\ newdir \notin DOMAIN pre
            /\ \A x \in seq..(c - 1) : Prefix \o <<"_">> \o Fmt0(x, 3) \in DOMAIN pre
            /\ newdir \in DOMAIN dest
            /\ \A d \in DOMAIN pre : d \in DOMAIN dest /\ dest[d] = pre[d]
    /\ \A j, k \in processed :
        j # k => DirName(Prefix, timelapses[j].seq) # DirName(Prefix, timelapses[k].seq)

\* a second session of a run is being copied, after two collisions
C1_Witness ==
    /\ pc = "copy"
    /\ Cardinality(processed) = 2
    /\ timelapses[cur].seq = seq + 2
    /\ work = <<>>

\* C2: when a run starts on a marker file holding the counter c an earlier
\* run left, the first session it processes starts its search at c + 1 or
\* higher, and settles on a counter greater than c.
C2_NextRunPastMarker ==
    (run > 1 /\ pc = "copy" /\ imported = 0 /\ marker0.present /\ Parsable(marker0.text))
        => /\ seq >= int(marker0.text) + 1
           /\ timelapses[cur].seq > int(marker0.text)

\* the highest counter of the sessions processed in the run
MaxUsed == CHOOSE m \in {timelapses[k].seq : k \in processed} :
               \A k \in processed : timelapses[k].seq <= m

\* C3: a run that completes has written the marker file exactly once, with
\* the highest counter of the sessions it processed, if it processed any, and
\* has not written it otherwise; nothing is written before the final loop is
\* over.
C3_MarkerWrittenOnce ==
    /\ pc # "done" => (writes = 0 /\ marker = marker0)
    /\ pc = "done" =>
        IF processed # {}
        THEN writes = 1 /\ marker = [present |-> TRUE, text |-> Dec(MaxUsed)]
        ELSE writes = 0 /\ marker = marker0

\* a run completed with two of three sessions processed and one skipped
C3_Witness ==
    /\ pc = "done"
    /\ Cardinality(processed) = 2
    /\ Cardinality(offered) = 3
    /\ writes = 1

\* C4: on a destination whose marker file is absent, or present with a
\* content that is no decimal integer, read_sequence does not raise and the
\* run goes on with counter 0.
C4_ReadDefaultsToZero ==
    (~marker0.present \/ ~Parsable(marker0.text))
        => /\ error # "ValueError"
           /\ pc = "scan" => seq = 0

\* a year strftime writes with four digits
FourDigitYear(t) == t[1] >= 1000

\* sorted_images holds the session's images, each once
IsPermutation(s, images) ==
    /\ Len(s) = Len(images)
    /\ \A i \in 1..Len(images) : \E j \in 1..Len(s) : s[j] = images[i]

C6_Copied ==
    (pc = "copy" /\ work = <<>>) =>
        LET s == sorted_images(timelapses[cur])
            N == Len(timelapses[cur].images)
        IN  /\ n = N + 1
            /\ Cardinality(dest[newdir]) = N
            /\ dest[newdir] = {<<Fmt0(k, 8) \o s[k].ext, s[k].fn>> : k \in 1..N}
            /\ \A k \in 1..N : Len(Fmt0(k, 8)) = 8

\* C6: when copy_files has copied a session of N images, the new directory
\* holds exactly N files, named by the 8-digit indices 1..N followed by the
\* extension, the file of index k being the copy of the k-th image of
\* sorted_images; and no step changes the files of the volume.
C6_CopiedInOrder == []C6_Copied /\ [][volume' = volume]_vars

\* a session of three images, listed in another order than the sorted one,
\* has been copied
C6_Witness ==
    /\ pc = "copy"
    /\ work = <<>>
    /\ Len(timelapses[cur].images) = 3
    /\ sorted_images(timelapses[cur]) # timelapses[cur].images
    /\ Cardinality(dest[newdir]) = 3

\* C7: when a copy of a session fails, the files already copied stay where
\* they are and every session of the run is still offered at the prompt.
C7_LaterSessionsOffered ==
    (Ended /\ error = "IOError")
        => /\ Cardinality(dest[newdir]) = n - 1
           /\ offered = DOMAIN timelapses

\* C8: no anomaly of a candidate file (no capture-time tag, a path that is
\* gone) ends the scan: the run is never ended by an exception raised while a
\* candidate is examined, with candidates left unexamined.
C8_ScanNeverAborts ==
    ~(pc = "crashed" /\ error \in {"KeyError", "AttributeError"})

\* the pattern of a timelapse image's name: G, three digits, four digits, .JPG
MatchesPattern(b) ==
    /\ Len(b) = 12
    /\ b[1] = "G"
    /\ \A i \in 2..8 : IsDigit(b[i])
    /\ SubSeq(b, 9, 12) = <<".", "J", "P", "G">>

\* the image is among the images of a session
Aggregated(image) ==
    \E k \in DOMAIN timelapses :
        \E i \in 1..Len(timelapses[k].images) : timelapses[k].images[i] = image

\* C9: the group of a parsed candidate is non-zero if and only if its base
\* name matches the pattern, and a candidate whose name matches is aggregated
\* into a session.
C9_GroupNonZeroIffMatch ==
    ti.state \in {"other", "image"}
        => /\ (ti.group # 0) <=> MatchesPattern(ti.fn[2])
           /\ MatchesPattern(ti.fn[2]) => Aggregated(ti)

RECURSIVE SumSizes(_)
SumSizes(images) == IF images = <<>> THEN 0
                    ELSE Head(images).size + SumSizes(Tail(images))

\* C10: a session's first is the earliest and its last the latest of its
\* images' capture times, and its size the sum of their sizes.
C10_FirstLastSize ==
    \A k \in DOMAIN timelapses :
        LET t == timelapses[k]
            whens == {t.images[i].when : i \in 1..Len(t.images)}
        IN  /\ t.first \in whens /\ \A w \in whens : ~TimeLess(w, t.first)
            /\ t.last \in whens /\ \A w \in whens : ~TimeLess(t.last, w)
            /\ t.size = SumSizes(t.images)

====
